---- MODULE Spec2Model ----
(***************************************************************************)
(* Model of src/uploader.py: the NextcloudUploader sync engine.            *)
(*                                                                         *)
(* File names are sequences of one-character strings, the ledger backing   *)
(* store (uploaded_files.txt) is the sequence of characters it holds, and  *)
(* _cargar_subidos / _marcar_como_subido are modelled by what they do to   *)
(* those characters (append name + newline; split in lines, strip, drop    *)
(* the empty ones).                                                        *)
(*                                                                         *)
(* Spec        one machine running main()/run() against a remote store     *)
(*             that may answer anything, with crashes and restarts.        *)
(* SpecFolder  two clients running _crear_carpeta_remota against one       *)
(*             well-behaved remote store.                                  *)
(***************************************************************************)
EXTENDS Integers, Sequences, FiniteSets, TLC

\* ------------------------------------------------------------------ bounds
\* calls of run() over the life of the model (all processes together)
MaxRuns == 2
\* calls of _crear_carpeta_remota per client in SpecFolder
MaxCalls == 2
MaxRecords == 3

\* ------------------------------------------------------------- characters
NL == "\n"
SP == " "
Whitespace == {SP, NL}

\* ------------------------------------------------------------- file names
\* Path.name of the files the local directory may hold.
NameA   == <<"a", ".", "j">>
NameSpA == <<SP, "a", ".", "j">>
NameB   == <<"b", ".", "J">>
NameC   == <<"c", ".", "x">>
Names == {NameA, NameSpA, NameB, NameC}

\* st_mtime values stat() may report, as the local date they fall on. The
\* content and the date of a file are whatever they are when it is read.
Mtimes == {[y |-> 2024, m |-> 3], [y |-> 2024, m |-> 11]}

\* ----------------------------------------------------------- status codes
\* what a request yields: a response with its status_code, a raised
\* requests.exceptions.RequestException, or nothing ever (no timeout is passed)
Resp(code) == [kind |-> "resp", status_code |-> code]
Exc == [kind |-> "exc", status_code |-> 0]
Hung == [kind |-> "hang", status_code |-> 0]
NoPut == [kind |-> "none", status_code |-> 0]
PropfindAnswers == {Resp(200), Resp(404), Resp(500)}
MkcolAnswers == {Resp(201), Resp(405), Resp(500)}
PutAnswers == {Resp(201), Resp(204), Resp(500)}

\* --------------------------------------------------------- configuration
TARGET_FOLDER == "TermuxUploads"
ExtJ == <<".", "j">>
ExtJUpper == <<".", "J">>
ExtConfigs == {{ExtJ}, {ExtJUpper}}

\* what os.getenv gives for a connection parameter: None, '' or a value
Unset == "None"
CredValues == {Unset, "", "nc"}

\* truth value of an Optional[str]
Truthy(v) == v # Unset /\ v # ""

\* (mutant) the password is not looked at
ConfigCompleta_sinPassword(url, user, pass) == Truthy(url) /\ Truthy(user)

\* line 82: all([base_url, username, password])
ConfigCompleta(url, user, pass) == Truthy(url) /\ Truthy(user) /\ Truthy(pass)

\* ------------------------------------------------------------- str helpers
RECURSIVE LStrip(_)
LStrip(s) == IF s # <<>> /\ Head(s) \in Whitespace THEN LStrip(Tail(s)) ELSE s

RECURSIVE RStrip(_)
RStrip(s) ==
    IF s # <<>> /\ s[Len(s)] \in Whitespace
    THEN RStrip(SubSeq(s, 1, Len(s) - 1))
    ELSE s

\* str.strip()
Strip(s) == RStrip(LStrip(s))

\* the lines a text file yields when iterated: each keeps its newline, the
\* last one may lack it
RECURSIVE FileLines(_)
FileLines(s) ==
    IF s = <<>> THEN {}
    ELSE IF \E i \in 1..Len(s) : s[i] = NL
         THEN LET i == CHOOSE j \in 1..Len(s) :
                          s[j] = NL /\ \A k \in 1..(j - 1) : s[k] # NL
              IN  {SubSeq(s, 1, i)} \cup FileLines(SubSeq(s, i + 1, Len(s)))
         ELSE {s}

\* str.lower()
LowerChar(c) == IF c = "J" THEN "j" ELSE c
Lower(s) == [i \in 1..Len(s) |-> LowerChar(s[i])]

\* str.rfind('.') (0 when absent, 1-based otherwise)
RFindDot(s) ==
    IF \E i \in 1..Len(s) : s[i] = "."
    THEN CHOOSE i \in 1..Len(s) : s[i] = "." /\ \A k \in (i + 1)..Len(s) : s[k] # "."
    ELSE 0

\* PurePath.suffix
Suffix(name) ==
    LET i == RFindDot(name)
    IN  IF 1 < i /\ i < Len(name) THEN SubSeq(name, i, Len(name)) ELSE <<>>

\* ------------------------------------------------------------------ ledger
\* the backing store does not exist (no sequence of characters equals it)
NoFile == <<"ENOENT">>

\* _cargar_subidos: the set read from the backing store; readOk = FALSE is
\* the IOError branch
cargar_subidos(db, readOk) ==
    IF db = NoFile THEN {}
    ELSE IF ~readOk THEN {}
    ELSE {Strip(l) : l \in FileLines(db)} \ {<<>>}

\* open(..., 'a') + f.write(f"{filename}\n")
AppendLine(db, filename) ==
    (IF db = NoFile THEN <<>> ELSE db) \o filename \o <<NL>>

\* ------------------------------------------------------- pure code pieces
\* line 187: f.suffix.lower() in EXTENSIONES_VALIDAS
ExtensionValida(name, validas) == Lower(Suffix(name)) \in validas

\* (mutant) the filter forgets the ledger
Filtrar_sinRegistro(archivos, subidos) == archivos

\* line 190: f.name not in self.uploaded_files
Filtrar(archivos, subidos) == {f \in archivos : f \notin subidos}

\* (mutant) MKCOL is issued whatever the probe answered
NeedsMkcol_siempre(response) == TRUE

\* line 122: only a 404 probe answer leads to MKCOL
NeedsMkcol(response) == response.status_code = 404

\* (mutant) every answer to the MKCOL is taken for a success
MkcolOk_todo(mkcol_response) == TRUE

\* (mutant) "already exists" is taken for a failure
MkcolOk_solo201(mkcol_response) == mkcol_response.status_code = 201

\* line 125: mkcol_response.status_code not in [201, 405] is the failure
MkcolOk(mkcol_response) == mkcol_response.status_code \in {201, 405}

\* (mutant) every answer to the PUT is taken for a success
PutOk_todo(response) == TRUE

\* line 149: response.status_code in [201, 204]
PutOk(response) == response.status_code \in {201, 204}

\* (mutant) every processed file is counted as a success
ContarExito_siempre(cnt, ok) == cnt + 1

\* lines 203-204: archivos_exitosos += 1 when subir_archivo returned True
ContarExito(cnt, ok) == IF ok THEN cnt + 1 ELSE cnt

\* lines 134-138 and 113: Path(carpeta_destino_remota).parts
Ano(t) == IF t.y = 2024 THEN "2024" ELSE "2025"
Mes(t) == IF t.m = 3 THEN "03" ELSE "11"
Parts(t) == <<TARGET_FOLDER, Ano(t), Mes(t)>>

\* (mutant) the probe names the part alone, not the path down to it
CurrentPath_soloParte(parts, k) == <<parts[k]>>

\* line 116: current_path after the k-th part
CurrentPath(parts, k) == SubSeq(parts, 1, k)

\* the orders in which iterdir() may list a set of files
Ordenes(S) ==
    {q \in [1..Cardinality(S) -> S] : \A i, j \in 1..Cardinality(S) : q[i] = q[j] => i = j}

\* ------------------------------------------------------------------- state
\* no file is being processed: st_mtime has not been read
NoMtime == [y |-> 0, m |-> 0]

NoReq == [m |-> "none", path |-> <<>>, st |-> NoPut]

VARIABLES
    \* configuration, fixed for the life of the model
    base_url,               \* NEXTCLOUD_URL
    username,               \* NEXTCLOUD_USER
    password,               \* NEXTCLOUD_PASS
    dirExists,              \* CARPETA_MEDIA.exists()
    DELETE_AFTER_UPLOAD,
    EXTENSIONES_VALIDAS,
    \* local filesystem
    localFiles,             \* names of the files in CARPETA_MEDIA
    uploaded_files_db,      \* content of uploaded_files.txt, or NoFile
    \* the process
    pc,
    uploaded_files,         \* self.uploaded_files
    archivos_a_subir,
    idx,                    \* position of the for loop of run(), 1-based
    archivos_exitosos,
    carpeta,                \* parts of carpeta_destino_remota of the current file
    fecha_mod,              \* year and month of the st_mtime read for the current file
    seg,                    \* position of the for loop of _crear_carpeta_remota
    \* history
    runNo,                  \* calls of run() so far
    procRuns,               \* calls of run() by the present process
    prevReq,                \* the request before the last one, for the current file
    lastReq,                \* the last request issued for the current file
    carpetaRes,             \* outcome of _crear_carpeta_remota for the current file
    putIssued,              \* files a PUT was issued for in this run
    putOk,                  \* files whose PUT was answered 201 or 204 in this run
    attempts,               \* per file: calls of subir_archivo in this run
    recorded,               \* names for which _marcar_como_subido has returned
    ledgerAtStart,          \* self.uploaded_files when this run started
    endLedger,              \* self.uploaded_files when the latest run ended or was cut
    endPending,             \* candidates of that run absent from its ledger then
    endCut,                 \* that run was interrupted
    endFailed,              \* candidates that run processed without a successful PUT
    prevLedger,             \* endLedger, endPending and endCut as the present run
    prevPending,            \*   found them when it started: what the run before
    prevCut,                \*   it left
    prevFailed,             \* endFailed as the present run found it
    delFailed,              \* names whose os.remove failed after a successful PUT
    \* SpecLedger: the ledger operations called on one backing store
    lpc,                    \* which ledger operation was called last
    lfilename,              \* the filename of the latest _marcar_como_subido
    lantes,                 \* self.uploaded_files before that call
    lreload,                \* what _cargar_subidos returned after it
    lcalls,                 \* calls of _marcar_como_subido so far
    \* SpecFolder: one remote store and the clients resolving folders on it
    carpetas,               \* the folders the remote store holds
    fpc,                    \* per client: where it is in _crear_carpeta_remota
    fpath,                  \* per client: parts of remote_path
    fseg,                   \* per client: position of the for loop
    fres,                   \* per client: what the call returned
    fcalls,                 \* per client: calls made so far
    fmkcols,                \* per client: MKCOL requests issued by the present call
    f405,                   \* per client: the present call was answered 405
    fpre,                   \* per client: a call on this path had succeeded before this one began
    resueltas               \* paths on which a call has returned True

lVars == <<lpc, lfilename, lantes, lreload, lcalls>>
fVars == <<carpetas, fpc, fpath, fseg, fres, fcalls, fmkcols, f405, fpre, resueltas>>
cfgVars == <<base_url, username, password, dirExists, DELETE_AFTER_UPLOAD,
          EXTENSIONES_VALIDAS>>
loopVars == <<archivos_a_subir, idx, archivos_exitosos>>
reqVars == <<prevReq, lastReq>>
endVars == <<endLedger, endPending, endCut, endFailed>>
prevVars == <<prevLedger, prevPending, prevCut, prevFailed>>
vars == <<base_url, username, password, dirExists, DELETE_AFTER_UPLOAD,
          EXTENSIONES_VALIDAS,
          localFiles, uploaded_files_db,
          pc, uploaded_files, archivos_a_subir, idx, archivos_exitosos, carpeta, fecha_mod, seg,
          runNo, procRuns, prevReq, lastReq, carpetaRes, putIssued, putOk, attempts,
          recorded, ledgerAtStart, endLedger, endPending, endCut, endFailed, prevLedger, prevPending,
          prevCut, prevFailed, delFailed,
          carpetas, fpc, fpath, fseg, fres, fcalls, fmkcols, f405, fpre, resueltas,
          lpc, lfilename, lantes, lreload, lcalls>>

credsOk == ConfigCompleta(base_url, username, password)

Running == {"subir", "propfind", "mkcol", "put", "record", "delete"}
Requesting == {"propfind", "mkcol", "put"}
\* run() has returned and the uploader object is still there
Returned == {"no_dir", "al_dia", "done"}
\* no process is running
Stopped == {"off", "config_error", "crashed"} \cup Returned

Archivo == archivos_a_subir[idx]

InitialDirs == {{NameA, NameB, NameC}, {NameA, NameSpA}, {NameSpA, NameC}}

Clients == {1, 2}

\* the folder clients before their first call, on a remote store holding `tree`
FolderInit(tree) ==
    /\ carpetas = tree
    /\ fpc = [c \in Clients |-> "idle"]
    /\ fpath = [c \in Clients |-> <<>>]
    /\ fseg = [c \in Clients |-> 1]
    /\ fres = [c \in Clients |-> "none"]
    /\ fcalls = [c \in Clients |-> 0]
    /\ fmkcols = [c \in Clients |-> 0]
    /\ f405 = [c \in Clients |-> FALSE]
    /\ fpre = [c \in Clients |-> FALSE]
    /\ resueltas = {}

\* no ledger operation has been called directly
LedgerInit ==
    /\ lpc = "idle"
    /\ lfilename = <<>>
    /\ lantes = {}
    /\ lreload = {}
    /\ lcalls = 0

Init ==
    /\ FolderInit({})
    /\ LedgerInit
    /\ base_url \in CredValues
    /\ username \in CredValues
    /\ password \in CredValues
    /\ dirExists \in BOOLEAN
    /\ DELETE_AFTER_UPLOAD \in BOOLEAN
    /\ EXTENSIONES_VALIDAS \in ExtConfigs
    /\ localFiles \in (IF dirExists THEN InitialDirs ELSE {{}})
    /\ uploaded_files_db = NoFile
    /\ pc = "off"
    /\ uploaded_files = {}
    /\ archivos_a_subir = <<>>
    /\ idx = 1
    /\ archivos_exitosos = 0
    /\ carpeta = <<>>
    /\ fecha_mod = NoMtime
    /\ seg = 1
    /\ runNo = 0
    /\ procRuns = 0
    /\ prevReq = NoReq
    /\ lastReq = NoReq
    /\ carpetaRes = "none"
    /\ putIssued = {}
    /\ putOk = {}
    /\ attempts = [n \in Names |-> 0]
    /\ recorded = {}
    /\ ledgerAtStart = {}
    /\ endLedger = {}
    /\ endPending = {}
    /\ endCut = FALSE
    /\ endFailed = {}
    /\ prevLedger = {}
    /\ prevPending = {}
    /\ prevCut = FALSE
    /\ prevFailed = {}
    /\ delFailed = {}

\* ----------------------------------------------------------------- actions
Candidatos == {archivos_a_subir[i] : i \in 1..Len(archivos_a_subir)}

\* the candidates the loop has finished with once it has done the first n
Procesados(n) == {archivos_a_subir[i] : i \in 1..n}

\* what is left of a run for the next invocation to see
Cierre(subidos, cut, fallidos) ==
    /\ endLedger' = subidos
    /\ endPending' = {n \in Candidatos : n \notin subidos}
    /\ endCut' = cut
    /\ endFailed' = fallidos

\* subir_archivo returns ok and the for loop of run() moves on (lines 201-207)
FinArchivo(ok) ==
    /\ archivos_exitosos' = ContarExito(archivos_exitosos, ok)
    /\ idx' = idx + 1
    /\ IF idx + 1 > Len(archivos_a_subir)
       THEN pc' = "done" /\ Cierre(uploaded_files', FALSE, Procesados(idx) \ putOk)
       ELSE pc' = "subir" /\ UNCHANGED endVars
    /\ UNCHANGED archivos_a_subir

Log(m, path, st) ==
    /\ prevReq' = lastReq
    /\ lastReq' = [m |-> m, path |-> path, st |-> st]

\* the per-run and per-file bookkeeping as a new run or a new process finds it
Fresh ==
    /\ prevReq' = NoReq
    /\ lastReq' = NoReq
    /\ carpetaRes' = "none"
    /\ putIssued' = {}
    /\ putOk' = {}
    /\ attempts' = [n \in Names |-> 0]
    /\ carpeta' = <<>>
    /\ fecha_mod' = NoMtime
    /\ seg' = 1

\* main(): NextcloudUploader(...) in a new process (lines 80-89, 215-225)
Main ==
    /\ pc \in Stopped
    /\ runNo < MaxRuns
    /\ procRuns' = 0
    /\ IF ~credsOk
       THEN pc' = "config_error" /\ uploaded_files' = {}
       ELSE /\ pc' = "ready"
            /\ \E readOk \in BOOLEAN :
                  uploaded_files' = cargar_subidos(uploaded_files_db, readOk)
    /\ archivos_a_subir' = <<>>
    /\ idx' = 1
    /\ archivos_exitosos' = 0
    /\ Fresh
    /\ ledgerAtStart' = {}
    /\ UNCHANGED <<lVars, fVars, cfgVars, localFiles, uploaded_files_db, runNo, recorded, endVars,
                   prevVars, delFailed>>

\* run() up to the start of the loop (lines 170-200)
Run ==
    /\ pc \in {"ready"} \cup Returned
    /\ runNo < MaxRuns
    /\ runNo' = runNo + 1
    /\ procRuns' = procRuns + 1
    /\ ledgerAtStart' = uploaded_files
    /\ prevLedger' = endLedger
    /\ prevPending' = endPending
    /\ prevCut' = endCut
    /\ prevFailed' = endFailed
    /\ Fresh
    /\ archivos_exitosos' = 0
    /\ idx' = 1
    /\ UNCHANGED uploaded_files
    /\ IF ~dirExists
       THEN /\ pc' = "no_dir"
            /\ archivos_a_subir' = <<>>
            /\ endLedger' = uploaded_files /\ endPending' = {} /\ endCut' = FALSE
            /\ endFailed' = {}
       ELSE LET archivos_locales ==
                    {f \in localFiles : ExtensionValida(f, EXTENSIONES_VALIDAS)}
                nuevos == Filtrar(archivos_locales, uploaded_files)
            IN  IF nuevos = {}
                THEN /\ pc' = "al_dia"
                     /\ archivos_a_subir' = <<>>
                     /\ endLedger' = uploaded_files /\ endPending' = {}
                     /\ endCut' = FALSE
                     /\ endFailed' = {}
                ELSE /\ pc' = "subir"
                     /\ archivos_a_subir' \in Ordenes(nuevos)
                     /\ UNCHANGED endVars
    /\ UNCHANGED <<lVars, fVars, cfgVars, localFiles, uploaded_files_db, recorded, delFailed>>

\* subir_archivo up to the call of _crear_carpeta_remota (lines 130-140, 113-114)
Subir ==
    /\ pc = "subir"
    /\ \E t \in Mtimes : fecha_mod' = t /\ carpeta' = Parts(t)
    /\ seg' = 1
    /\ prevReq' = NoReq
    /\ lastReq' = NoReq
    /\ carpetaRes' = "none"
    /\ attempts' = [attempts EXCEPT ![Archivo] = @ + 1]
    /\ pc' = "propfind"
    /\ UNCHANGED <<lVars, fVars, cfgVars, localFiles, uploaded_files_db, uploaded_files, loopVars, runNo,
                   procRuns, putIssued, putOk, recorded, ledgerAtStart, endVars, prevVars,
                   delFailed>>

\* the for loop of _crear_carpeta_remota moves to the next part, or returns True
Avanzar ==
    IF seg < Len(carpeta)
    THEN seg' = seg + 1 /\ pc' = "propfind" /\ UNCHANGED carpetaRes
    ELSE seg' = seg /\ pc' = "put" /\ carpetaRes' = "ok"

\* PROPFIND of the current prefix and the branch on its answer (lines 116-122)
Propfind ==
    /\ pc = "propfind"
    /\ \E st \in PropfindAnswers \cup {Exc} :
          /\ Log("PROPFIND", CurrentPath(carpeta, seg), st)
          /\ UNCHANGED uploaded_files
          /\ IF st.kind = "exc"
             THEN /\ FinArchivo(FALSE)
                  /\ UNCHANGED <<seg, carpetaRes>>
             ELSE /\ IF NeedsMkcol(st)
                     THEN pc' = "mkcol" /\ UNCHANGED <<seg, carpetaRes>>
                     ELSE Avanzar
                  /\ UNCHANGED <<loopVars, endVars>>
    /\ UNCHANGED <<lVars, fVars, cfgVars, localFiles, uploaded_files_db, carpeta, fecha_mod, runNo,
                   procRuns,
                   putIssued, putOk, attempts, recorded, ledgerAtStart, prevVars, delFailed>>

\* MKCOL of the current prefix and the branch on its answer (lines 123-127)
Mkcol ==
    /\ pc = "mkcol"
    /\ \E st \in MkcolAnswers \cup {Exc} :
          /\ Log("MKCOL", CurrentPath(carpeta, seg), st)
          /\ UNCHANGED uploaded_files
          /\ IF st.kind = "exc"
             THEN /\ FinArchivo(FALSE)
                  /\ UNCHANGED <<seg, carpetaRes>>
             ELSE IF ~MkcolOk(st)
             THEN /\ FinArchivo(FALSE)
                  /\ carpetaRes' = "fail"
                  /\ UNCHANGED seg
             ELSE /\ Avanzar
                  /\ UNCHANGED <<loopVars, endVars>>
    /\ UNCHANGED <<lVars, fVars, cfgVars, localFiles, uploaded_files_db, carpeta, fecha_mod, runNo,
                   procRuns,
                   putIssued, putOk, attempts, recorded, ledgerAtStart, prevVars, delFailed>>

\* open the file and PUT it; branch on the answer (lines 144-149, 159-165)
Put ==
    /\ pc = "put"
    /\ \E st \in PutAnswers \cup {Exc} :
          /\ Log("PUT", carpeta \o <<Archivo>>, st)
          /\ putIssued' = putIssued \cup {Archivo}
          /\ UNCHANGED uploaded_files
          /\ putOk' = IF st \in {Resp(201), Resp(204)} THEN putOk \cup {Archivo} ELSE putOk
          /\ IF st.kind = "resp" /\ PutOk(st)
             THEN pc' = "record" /\ UNCHANGED <<loopVars, endVars>>
             ELSE FinArchivo(FALSE)
    /\ UNCHANGED <<lVars, fVars, cfgVars, localFiles, uploaded_files_db, carpeta, fecha_mod, seg, carpetaRes,
                   runNo,
                   procRuns, attempts, recorded, ledgerAtStart, prevVars, delFailed>>

\* _marcar_como_subido(file_path.name) (lines 102-109, 150-152, 158)
Record ==
    /\ pc = "record"
    /\ \E writeOk \in BOOLEAN :
          IF writeOk
          THEN /\ uploaded_files_db' = AppendLine(uploaded_files_db, Archivo)
               /\ uploaded_files' = uploaded_files \cup {Archivo}
          ELSE UNCHANGED <<uploaded_files_db, uploaded_files>>
    /\ recorded' = recorded \cup {Archivo}
    /\ IF DELETE_AFTER_UPLOAD
       THEN pc' = "delete" /\ UNCHANGED <<loopVars, endVars>>
       ELSE FinArchivo(TRUE)
    /\ UNCHANGED <<lVars, fVars, cfgVars, localFiles, carpeta, fecha_mod, seg, carpetaRes, runNo, procRuns,
                   reqVars,
                   putIssued, putOk, attempts, ledgerAtStart, prevVars, delFailed>>

\* os.remove(file_path) (lines 152-158)
Delete ==
    /\ pc = "delete"
    /\ \E rmOk \in BOOLEAN :
          IF rmOk
          THEN localFiles' = localFiles \ {Archivo} /\ UNCHANGED delFailed
          ELSE delFailed' = delFailed \cup {Archivo} /\ UNCHANGED localFiles
    /\ UNCHANGED uploaded_files
    /\ FinArchivo(TRUE)
    /\ UNCHANGED <<lVars, fVars, cfgVars, uploaded_files_db, carpeta, fecha_mod, seg, carpetaRes,
                   runNo, procRuns,
                   reqVars, putIssued, putOk, attempts, recorded, ledgerAtStart, prevVars>>

\* a request that is never answered: session.request / session.put get no timeout
Hang ==
    /\ pc \in Requesting
    /\ Log(IF pc = "propfind" THEN "PROPFIND" ELSE IF pc = "mkcol" THEN "MKCOL" ELSE "PUT",
           IF pc = "put" THEN carpeta \o <<Archivo>> ELSE CurrentPath(carpeta, seg), Hung)
    /\ putIssued' = IF pc = "put" THEN putIssued \cup {Archivo} ELSE putIssued
    /\ pc' = "hung"
    /\ UNCHANGED <<lVars, fVars, cfgVars, localFiles, uploaded_files_db, uploaded_files, loopVars, carpeta,
                   fecha_mod, seg, carpetaRes, runNo, procRuns, putOk, attempts, recorded,
                   ledgerAtStart, endVars, prevVars, delFailed>>

\* the process is interrupted between two steps; what it held in memory is lost
Crash ==
    /\ pc \in Running \cup {"hung"}
    /\ pc' = "crashed"
    /\ Cierre(uploaded_files, TRUE, Procesados(idx - 1) \ putOk)
    /\ uploaded_files' = {}
    /\ archivos_a_subir' = <<>>
    /\ idx' = 1
    /\ archivos_exitosos' = 0
    /\ Fresh
    /\ ledgerAtStart' = {}
    /\ UNCHANGED <<lVars, fVars, cfgVars, localFiles, uploaded_files_db, runNo, procRuns, recorded,
                   prevVars, delFailed>>

Next ==
    \/ Main
    \/ Run
    \/ Subir
    \/ Propfind
    \/ Mkcol
    \/ Put
    \/ Record
    \/ Delete
    \/ Hang
    \/ Crash

Spec == Init /\ [][Next]_vars

\* ------------------------------------------------- SpecFolder: the resolver
\* against a well-behaved remote store shared by two clients
mainVars == <<base_url, username, password, dirExists, DELETE_AFTER_UPLOAD,
          EXTENSIONES_VALIDAS,
              localFiles, uploaded_files_db,
              pc, uploaded_files, archivos_a_subir, idx, archivos_exitosos, carpeta, fecha_mod, seg,
              runNo, procRuns, prevReq, lastReq, carpetaRes, putIssued, putOk, attempts,
              recorded, ledgerAtStart, endLedger, endPending, endCut, endFailed, prevLedger,
              prevPending, prevCut, prevFailed, delFailed>>

RemotePaths == {Parts(t) : t \in Mtimes}
Prefixes(parts) == {CurrentPath(parts, k) : k \in 1..Len(parts)}

\* remote trees the store may hold at the start: closed under parent
InitialTrees ==
    {{}, {<<TARGET_FOLDER>>}, {<<TARGET_FOLDER>>, <<TARGET_FOLDER, "2024">>}}

\* the answers of a well-behaved WebDAV store
PropfindAnswer(tree, path) == IF path \in tree THEN Resp(200) ELSE Resp(404)
MkcolAnswer(tree, path) ==
    IF path \in tree THEN Resp(405)
    ELSE IF Len(path) > 1 /\ SubSeq(path, 1, Len(path) - 1) \notin tree THEN Resp(409)
    ELSE Resp(201)
MkcolEffect(tree, path) ==
    IF MkcolAnswer(tree, path) = Resp(201) THEN tree \cup {path} ELSE tree

InitFolder ==
    /\ \E tree \in InitialTrees : FolderInit(tree)
    /\ LedgerInit
    /\ base_url = "nc"
    /\ username = "nc"
    /\ password = "nc"
    /\ dirExists = TRUE
    /\ DELETE_AFTER_UPLOAD = FALSE
    /\ EXTENSIONES_VALIDAS = {ExtJ}
    /\ localFiles = {}
    /\ uploaded_files_db = NoFile
    /\ pc = "off"
    /\ uploaded_files = {}
    /\ archivos_a_subir = <<>>
    /\ idx = 1
    /\ archivos_exitosos = 0
    /\ carpeta = <<>>
    /\ fecha_mod = NoMtime
    /\ seg = 1
    /\ runNo = 0
    /\ procRuns = 0
    /\ prevReq = NoReq
    /\ lastReq = NoReq
    /\ carpetaRes = "none"
    /\ putIssued = {}
    /\ putOk = {}
    /\ attempts = [n \in Names |-> 0]
    /\ recorded = {}
    /\ ledgerAtStart = {}
    /\ endLedger = {}
    /\ endPending = {}
    /\ endCut = FALSE
    /\ endFailed = {}
    /\ prevLedger = {}
    /\ prevPending = {}
    /\ prevCut = FALSE
    /\ prevFailed = {}
    /\ delFailed = {}

\* a client calls _crear_carpeta_remota(remote_path) (lines 111-114)
FCall(c) ==
    /\ fpc[c] \in {"idle", "done"}
    /\ fcalls[c] < MaxCalls
    /\ \E p \in RemotePaths :
          /\ fpath' = [fpath EXCEPT ![c] = p]
          /\ fpre' = [fpre EXCEPT ![c] = p \in resueltas]
    /\ fcalls' = [fcalls EXCEPT ![c] = @ + 1]
    /\ fseg' = [fseg EXCEPT ![c] = 1]
    /\ fres' = [fres EXCEPT ![c] = "none"]
    /\ fmkcols' = [fmkcols EXCEPT ![c] = 0]
    /\ f405' = [f405 EXCEPT ![c] = FALSE]
    /\ fpc' = [fpc EXCEPT ![c] = "propfind"]
    /\ UNCHANGED <<carpetas, resueltas, mainVars, lVars>>

\* the for loop of the client moves to the next part, or returns True
FAvanzar(c) ==
    IF fseg[c] < Len(fpath[c])
    THEN /\ fseg' = [fseg EXCEPT ![c] = @ + 1]
         /\ fpc' = [fpc EXCEPT ![c] = "propfind"]
         /\ UNCHANGED <<fres, resueltas>>
    ELSE /\ fpc' = [fpc EXCEPT ![c] = "done"]
         /\ fres' = [fres EXCEPT ![c] = "ok"]
         /\ resueltas' = resueltas \cup {fpath[c]}
         /\ UNCHANGED fseg

\* PROPFIND of the client's current prefix (lines 116-122)
FPropfind(c) ==
    /\ fpc[c] = "propfind"
    /\ LET st == PropfindAnswer(carpetas, CurrentPath(fpath[c], fseg[c]))
       IN  IF NeedsMkcol(st)
           THEN /\ fpc' = [fpc EXCEPT ![c] = "mkcol"]
                /\ UNCHANGED <<fseg, fres, resueltas>>
           ELSE FAvanzar(c)
    /\ UNCHANGED <<carpetas, fpath, fcalls, fmkcols, f405, fpre, mainVars, lVars>>

\* MKCOL of the client's current prefix (lines 123-127)
FMkcol(c) ==
    /\ fpc[c] = "mkcol"
    /\ LET path == CurrentPath(fpath[c], fseg[c])
           st == MkcolAnswer(carpetas, path)
       IN  /\ carpetas' = MkcolEffect(carpetas, path)
           /\ fmkcols' = [fmkcols EXCEPT ![c] = @ + 1]
           /\ f405' = [f405 EXCEPT ![c] = @ \/ st = Resp(405)]
           /\ IF MkcolOk(st)
              THEN FAvanzar(c)
              ELSE /\ fpc' = [fpc EXCEPT ![c] = "done"]
                   /\ fres' = [fres EXCEPT ![c] = "fail"]
                   /\ UNCHANGED <<fseg, resueltas>>
    /\ UNCHANGED <<fpath, fcalls, fpre, mainVars, lVars>>

NextFolder ==
    \/ \E c \in Clients : FCall(c)
    \/ \E c \in Clients : FPropfind(c)
    \/ \E c \in Clients : FMkcol(c)

SpecFolder == InitFolder /\ [][NextFolder]_vars

\* =================================================================== claims
\* the state right after the candidate filtering of run() (line 190)
JustFiltered == (pc = "subir" /\ idx = 1 /\ putIssued = {} /\ lastReq = NoReq) \/ pc = "al_dia"

\* C1 (ledger exclusivity): once _marcar_como_subido has returned for a name,
\* whatever the write did, every later candidate filtering (same process or a
\* new one that reloads the ledger) leaves every file of that name out.
C1_LedgerExclusivity ==
    JustFiltered => \A n \in recorded : n \notin Candidatos

C3_PartialFailureIsolation ==
    /\ \A n \in Names : attempts[n] <= 1
    /\ pc = "done" =>
          /\ \A n \in Names : attempts[n] = (IF n \in Candidatos THEN 1 ELSE 0)
          /\ archivos_exitosos = Cardinality(putOk)
          /\ Len(archivos_a_subir) - archivos_exitosos = Cardinality(Candidatos \ putOk)

\* a finished run of two candidates whose first failed and whose second was
\* uploaded
C3_Witness ==
    /\ pc = "done"
    /\ Len(archivos_a_subir) = 2
    /\ archivos_a_subir[1] \notin putOk
    /\ archivos_a_subir[2] \in putOk
    /\ archivos_exitosos = 1

\* C4 (no silent loss): a step adds a name to the ledger (the set or the
\* backing store) or deletes a local file only for the file whose PUT was
\* answered 201 or 204 in this run; a candidate without such an answer is
\* neither in the ledger nor deleted.
C4_NoSilentLoss ==
    [][ /\ uploaded_files_db' # uploaded_files_db =>
              /\ pc = "record" /\ Archivo \in putOk
              /\ uploaded_files_db' = AppendLine(uploaded_files_db, Archivo)
        /\ localFiles' # localFiles =>
              /\ pc = "delete" /\ Archivo \in putOk
              /\ localFiles' = localFiles \ {Archivo}
        /\ pc \in Running =>
              \A n \in uploaded_files' \ uploaded_files : n = Archivo /\ n \in putOk
        /\ \A n \in Candidatos' \ putOk' : n \notin uploaded_files' /\ n \in localFiles'
      ]_vars

\* a finished run that recorded and deleted one file and failed on the PUT
\* of another, which is still there and unrecorded
C4_Witness ==
    /\ pc = "done"
    /\ \E a, b \in Candidatos :
          /\ a \in putOk /\ a \in uploaded_files /\ a \notin localFiles
          /\ b \in putIssued \ putOk /\ b \notin uploaded_files /\ b \in localFiles

\* C5 (deletion asymmetry): a file whose PUT succeeded and whose os.remove
\* then failed is counted as a success, has its name in the ledger, and is
\* not a candidate of the next run.
C5_DeletionAsymmetry ==
    /\ \A n \in delFailed \cap Candidatos : n \in putOk => n \in uploaded_files
    /\ pc = "done" => archivos_exitosos >= Cardinality(delFailed \cap putOk)
    /\ JustFiltered => delFailed \cap Candidatos = {}

UnexpectedProbe(r) ==
    r.m = "PROPFIND" /\ r.st.kind = "resp" /\ r.st.status_code \notin {200, 404}

\* C6 (unexpected probe status is fatal): after a PROPFIND answered by
\* anything but 200 or 404 the resolver has failed and the file gets no
\* further request (no MKCOL, no deeper PROPFIND, no PUT).
C6_UnexpectedProbeFatal ==
    /\ ~UnexpectedProbe(prevReq)
    /\ UnexpectedProbe(lastReq) => carpetaRes = "fail" /\ pc \notin Requesting

\* C7 (creation result interpretation): a MKCOL comes right after the
\* PROPFIND of the same prefix answered 404; after a MKCOL answered 201 or
\* 405 the walk goes on with the next prefix (or returns True after the
\* last); after any other MKCOL answer the resolver has returned False and
\* no request follows.
C7_CreationResult ==
    /\ lastReq.m = "MKCOL" =>
          /\ prevReq.m = "PROPFIND"
          /\ prevReq.path = lastReq.path
          /\ prevReq.st = Resp(404)
    /\ (lastReq.m = "MKCOL" /\ lastReq.st \in {Resp(201), Resp(405)}) =>
          IF Len(lastReq.path) < Len(carpeta)
          THEN pc = "propfind" /\ seg = Len(lastReq.path) + 1 /\ carpetaRes = "none"
          ELSE pc = "put" /\ carpetaRes = "ok"
    /\ (lastReq.m = "MKCOL" /\ lastReq.st.kind = "resp"
           /\ lastReq.st \notin {Resp(201), Resp(405)}) =>
          carpetaRes = "fail" /\ pc \in {"subir", "done"}
    /\ prevReq.m = "MKCOL" => prevReq.st \in {Resp(201), Resp(405)}

\* the walk has gone on to the second prefix after a MKCOL answered 405
C7_Witness ==
    /\ lastReq.m = "MKCOL" /\ lastReq.st = Resp(405)
    /\ Len(lastReq.path) = 1
    /\ pc = "propfind" /\ seg = 2

\* C8 (concurrent folder creation), SpecFolder: whatever the interleaving of
\* the requests of the clients on a well-behaved store, every call of the
\* resolver returns True and every prefix of its path exists afterwards.
C8_ConcurrentFolderCreation ==
    \A c \in Clients :
        fpc[c] = "done" => fres[c] = "ok" /\ Prefixes(fpath[c]) \subseteq carpetas

\* both clients have resolved the same path, one of them having lost a race
\* (its MKCOL was answered 405)
C8_Witness ==
    /\ \A c \in Clients : fpc[c] = "done" /\ fcalls[c] = 1
    /\ fpath[1] = fpath[2]
    /\ \E c \in Clients : f405[c]

\* C9 (folder idempotence), SpecFolder: a call on a path on which a call had
\* already succeeded issues no MKCOL and returns True.
C9_FolderIdempotence ==
    \A c \in Clients :
        fpre[c] => fmkcols[c] = 0 /\ (fpc[c] = "done" => fres[c] = "ok")

\* a client has finished a second call on a path already resolved
C9_Witness ==
    \E c \in Clients :
        fpre[c] /\ fcalls[c] = 2 /\ fpc[c] = "done" /\ fres[c] = "ok"

\* C10 (interrupted run is recoverable): after a run was interrupted, the
\* ledger loaded by the next invocation holds every name the ledger held at
\* the interruption, and every candidate not in it then is still a local
\* file and a candidate of the next run.
C10_InterruptedRunRecoverable ==
    /\ (pc = "ready" /\ endCut) => endLedger \subseteq uploaded_files
    /\ (JustFiltered /\ prevCut) => prevPending \subseteq (Candidatos \cap localFiles)

\* C11 (configuration preconditions): with an empty base URL, user name or
\* password, or without the local source directory, the run stops before it
\* scans: no request is ever issued, the ledger is not modified and no local
\* file is deleted.
C11_ConfigPreconditions ==
    (~(Truthy(base_url) /\ Truthy(username) /\ Truthy(password)) \/ ~dirExists) =>
        /\ pc \in {"off", "config_error", "ready", "no_dir"}
        /\ ~(Truthy(base_url) /\ Truthy(username) /\ Truthy(password)) =>
              pc \in {"off", "config_error"} /\ runNo = 0
        /\ archivos_a_subir = <<>>
        /\ lastReq = NoReq /\ prevReq = NoReq /\ putIssued = {}
        /\ uploaded_files_db = NoFile /\ uploaded_files = {} /\ recorded = {}
        /\ localFiles \in (IF dirExists THEN InitialDirs ELSE {{}})

\* main() has ended in the configuration error with only the password empty
\* and files waiting in the directory
C11_Witness ==
    /\ pc = "config_error"
    /\ Truthy(base_url) /\ Truthy(username) /\ password = ""
    /\ dirExists /\ NameA \in localFiles

\* C12 (per-candidate call order): the destination of a candidate is
\* R/Y/M for the root R and the year Y and month M of its modification date;
\* the k-th prefix is probed first of all (k = 1) or right after the folder
\* step of prefix k-1 ended (a probe answered other than 404, or a creation
\* answered 201 or 405); a creation comes right after the 404 probe of the
\* same prefix; the PUT goes to R/Y/M/<file name>, once, right after the
\* folder step of R/Y/M; the record comes after the PUT's success answer and
\* the local delete after the record.
FolderStepDone(r, path) ==
    /\ r.path = path
    /\ \/ r.m = "PROPFIND" /\ r.st.kind = "resp" /\ r.st # Resp(404)
       \/ r.m = "MKCOL" /\ r.st \in {Resp(201), Resp(405)}

C12_CallOrder ==
    LET dest == <<"TermuxUploads", Ano(fecha_mod), Mes(fecha_mod)>>
        k == Len(lastReq.path)
        file == IF pc \in {"subir", "done"} THEN archivos_a_subir[idx - 1] ELSE Archivo
    IN  /\ pc \in {"propfind", "mkcol", "put", "record", "delete", "hung"} =>
              fecha_mod \in Mtimes /\ carpeta = dest
        /\ lastReq.m = "PROPFIND" =>
              /\ k \in 1..3 /\ lastReq.path = SubSeq(dest, 1, k)
              /\ IF k = 1 THEN prevReq = NoReq
                          ELSE FolderStepDone(prevReq, SubSeq(dest, 1, k - 1))
        /\ lastReq.m = "MKCOL" =>
              /\ k \in 1..3 /\ lastReq.path = SubSeq(dest, 1, k)
              /\ prevReq = [m |-> "PROPFIND", path |-> lastReq.path, st |-> Resp(404)]
        /\ lastReq.m = "PUT" =>
              /\ lastReq.path = dest \o <<file>>
              /\ FolderStepDone(prevReq, dest)
              /\ file \in putIssued
              /\ pc \in {"record", "delete", "subir", "done", "hung"}
        /\ pc = "propfind" =>
              IF seg = 1 THEN lastReq = NoReq
                         ELSE FolderStepDone(lastReq, SubSeq(dest, 1, seg - 1))
        /\ pc = "mkcol" =>
              lastReq = [m |-> "PROPFIND", path |-> SubSeq(dest, 1, seg), st |-> Resp(404)]
        /\ pc = "put" => FolderStepDone(lastReq, dest) /\ Archivo \notin putIssued
        /\ pc \in {"record", "delete"} =>
              /\ lastReq.m = "PUT" /\ lastReq.st \in {Resp(201), Resp(204)}
              /\ Archivo \in putOk
        /\ pc = "record" => Archivo \notin uploaded_files
        /\ pc = "delete" => DELETE_AFTER_UPLOAD /\ Archivo \in recorded
        /\ pc \in Running \cup {"done", "hung"} =>
              /\ (uploaded_files \ ledgerAtStart) \subseteq putOk
              /\ (ledgerAtStart \ uploaded_files) = {}
              /\ \A n \in Candidatos : n \notin localFiles => n \in putOk

\* all three folders were created, the file was uploaded and recorded, and
\* the local delete is about to happen
C12_Witness ==
    /\ pc = "delete"
    /\ prevReq.m = "MKCOL" /\ prevReq.st = Resp(201)
    /\ fecha_mod = [y |-> 2024, m |-> 11]
    /\ lastReq.path = <<"TermuxUploads", "2024", "11", NameB>>

\* SpecRun: calls of run() that nothing interrupts, in a process that goes on
\* whenever it can; a request may still stay unanswered
RunStep == Subir \/ Propfind \/ Mkcol \/ Put \/ Record \/ Delete

NextRun ==
    \/ Main
    \/ Run
    \/ Subir
    \/ Propfind
    \/ Mkcol
    \/ Put
    \/ Record
    \/ Delete
    \/ Hang

SpecRun == Init /\ [][NextRun]_vars /\ WF_vars(RunStep)

\* C13 (run completion), SpecRun: a call of run() that has candidates
\* eventually reaches the final summary, whatever the remote store answers
\* and even when it never answers.
C13_RunCompletion == (pc = "subir") ~> (pc = "done")

\* C14 (no upload after folder failure): the resolver returns failure exactly
\* when a MKCOL is answered with a status other than 201 and 405; then no PUT
\* is issued for that candidate in this run, the success count is still the
\* number of candidates whose PUT succeeded, and the loop is at the next
\* candidate, or at the summary after the last one.
FolderFailed ==
    /\ lastReq.m = "MKCOL"
    /\ lastReq.st.kind = "resp"
    /\ lastReq.st.status_code \notin {201, 405}

C14_NoUploadAfterFolderFailure ==
    /\ carpetaRes = "fail" <=> FolderFailed
    /\ FolderFailed =>
          /\ idx >= 2 /\ idx <= Len(archivos_a_subir) + 1
          /\ archivos_a_subir[idx - 1] \notin putIssued
          /\ archivos_a_subir[idx - 1] \notin uploaded_files
          /\ archivos_a_subir[idx - 1] \in localFiles
          /\ attempts[archivos_a_subir[idx - 1]] = 1
          /\ archivos_exitosos =
                Cardinality({i \in 1..(idx - 1) : archivos_a_subir[i] \in putOk})
          /\ archivos_exitosos <= idx - 2
          /\ pc = IF idx <= Len(archivos_a_subir) THEN "subir" ELSE "done"

\* the folder of the first of two candidates could not be created and the
\* loop is at the second
C14_Witness ==
    /\ FolderFailed /\ lastReq.st = Resp(500)
    /\ pc = "subir" /\ idx = 2 /\ Len(archivos_a_subir) = 2
    /\ putIssued = {}

\* C15 (failed candidate stays eligible): a candidate that a run processed
\* without a successful PUT is in no ledger set because of it and is still on
\* disk, and the next run, in the same process or in a new one, selects it
\* again.
C15_FailedStaysEligible ==
    /\ (pc \in {"subir", "done"} /\ idx >= 2 /\ archivos_a_subir[idx - 1] \notin putOk) =>
          /\ archivos_a_subir[idx - 1] \notin uploaded_files
          /\ archivos_a_subir[idx - 1] \in localFiles
    /\ pc \in Stopped => endFailed \subseteq localFiles
    /\ (JustFiltered /\ runNo >= 2) => prevFailed \subseteq Candidatos

\* C16 (every counted success is recorded): at the end of a run every
\* candidate counted as succeeded has its name in the in-memory ledger set
\* and on a line of the backing store.
C16_CountedSuccessRecorded ==
    pc = "done" =>
        /\ archivos_exitosos = Cardinality(Candidatos \cap putOk)
        /\ \A n \in Candidatos \cap putOk :
              /\ n \in uploaded_files
              /\ uploaded_files_db # NoFile
              /\ (n \o <<NL>>) \in FileLines(uploaded_files_db)

\* C17 (ledger monotonicity): no step of a process takes a name out of the
\* in-memory ledger set, every step leaves what the backing store held at
\* the head of what it holds afterwards, and the set a new process loads
\* contains the set the latest run held when it ended.
C17_LedgerMonotonic ==
    [][/\ pc' \notin {"crashed", "ready", "config_error"} =>
             uploaded_files \subseteq uploaded_files'
       /\ uploaded_files_db # NoFile =>
             /\ uploaded_files_db' # NoFile
             /\ Len(uploaded_files_db') >= Len(uploaded_files_db)
             /\ SubSeq(uploaded_files_db', 1, Len(uploaded_files_db)) = uploaded_files_db
       /\ pc' = "ready" => endLedger \subseteq uploaded_files'
      ]_vars

\* C18 (candidate selection): the step of run() that builds the candidate
\* list selects exactly the local files whose extension equals an entry of
\* the allow-set when case is ignored and whose name is not in the ledger
\* set, whatever the case of the entries of the allow-set, and changes
\* neither the ledger set, nor the backing store, nor the directory.
C18_CandidateSelection ==
    [][(runNo' = runNo + 1 /\ dirExists) =>
          /\ Candidatos' =
                {f \in localFiles :
                    /\ \E e \in EXTENSIONES_VALIDAS : Lower(Suffix(f)) = Lower(e)
                    /\ f \notin uploaded_files}
          /\ UNCHANGED <<uploaded_files, uploaded_files_db, localFiles>>
      ]_vars

\* ------------------------------------------- SpecLedger: the ledger alone
\* _marcar_como_subido and _cargar_subidos called on one backing store, with
\* any name, present in the ledger or not
restoVars == <<cfgVars, localFiles, pc, loopVars, carpeta, fecha_mod, seg, runNo, procRuns,
               reqVars, carpetaRes, putIssued, putOk, attempts, recorded, ledgerAtStart,
               endVars, prevVars, delFailed>>

InitLedger == InitFolder /\ carpetas = {}

\* _marcar_como_subido(filename) (lines 102-109)
LMarcar ==
    /\ lpc \in {"idle", "marked", "reloaded"}
    /\ lcalls < MaxRecords
    /\ \E filename \in Names, writeOk \in BOOLEAN :
          /\ lfilename' = filename
          /\ IF writeOk
             THEN /\ uploaded_files_db' = AppendLine(uploaded_files_db, filename)
                  /\ uploaded_files' = uploaded_files \cup {filename}
             ELSE UNCHANGED <<uploaded_files_db, uploaded_files>>
    /\ lantes' = uploaded_files
    /\ lcalls' = lcalls + 1
    /\ lpc' = "marked"
    /\ UNCHANGED <<lreload, fVars, restoVars>>

\* _cargar_subidos() on the same backing store (lines 91-100)
LCargar ==
    /\ lpc = "marked"
    /\ \E readOk \in BOOLEAN : lreload' = cargar_subidos(uploaded_files_db, readOk)
    /\ lpc' = "reloaded"
    /\ UNCHANGED <<lfilename, lantes, lcalls, uploaded_files, uploaded_files_db, fVars,
                   restoVars>>

NextLedger ==
    \/ LMarcar
    \/ LCargar

SpecLedger == InitLedger /\ [][NextLedger]_vars

\* C19 (record idempotence), SpecLedger: after the record operation was
\* called with a name that was in the in-memory set, the set is what it was
\* before the call, and the set reloaded from the backing store equals it.
C19_RecordIdempotent ==
    /\ (lpc \in {"marked", "reloaded"} /\ lfilename \in lantes) => uploaded_files = lantes
    /\ (lpc = "reloaded" /\ lfilename \in lantes) => lreload = lantes

====
